---- MODULE Spec2Model ----
(***************************************************************************)
(* Model of scripts/powerspectra.py: the Monte Carlo pairing loop, the     *)
(* accumulation of cross-spectra per (mask, fitting scheme, component),    *)
(* the noise-bias ensemble and compute_mean_cov.                           *)
(*                                                                         *)
(* Python locals of main() are state variables; a local that has not been  *)
(* assigned yet is the empty sequence <<>> and an assigned local holding v *)
(* is <<v>>.  Real numbers are exact rationals [n, d] with d > 0; d = 0 is *)
(* a non-finite IEEE value (0/0 is NaN).  Rounding is not modelled.        *)
(* Source indices are 0-based, sequences here are 1-based.                 *)
(***************************************************************************)
EXTENDS Integers, Sequences, FiniteSets, TLC

\* ------------------------------------------------------------------ bounds
MaxNmc == 4
MaxNeg == 2
MaxSeed == 1
MaxN == 2
MaxDim == 2
MaxVal == 2

\* ------------------------------------------------------ program constants
NOISE_MC == 30
N_SPEC == 4

\* ------------------------------------------------------------- rationals
\* A real number is n/d with d > 0, kept unreduced; d = 0 is a non-finite
\* IEEE value (0/0 is NaN, x/0 a signed infinity).
NaN == [n |-> 0, d |-> 0]

IsFinite(r) == r.d > 0

FromInt(x) == [n |-> x, d |-> 1]

RAdd(a, b) ==
    IF ~IsFinite(a) \/ ~IsFinite(b) THEN NaN
    ELSE IF a.d = b.d THEN [n |-> a.n + b.n, d |-> a.d]
    ELSE [n |-> a.n * b.d + b.n * a.d, d |-> a.d * b.d]

RSub(a, b) ==
    IF ~IsFinite(a) \/ ~IsFinite(b) THEN NaN
    ELSE IF a.d = b.d THEN [n |-> a.n - b.n, d |-> a.d]
    ELSE [n |-> a.n * b.d - b.n * a.d, d |-> a.d * b.d]

RMul(a, b) ==
    IF ~IsFinite(a) \/ ~IsFinite(b) THEN NaN
    ELSE [n |-> a.n * b.n, d |-> a.d * b.d]

\* IEEE division by a float holding the integer m >= 0: x/0.0 is NaN for
\* x = 0 and a signed infinity otherwise; numpy raises no exception.
RDivInt(a, m) ==
    IF ~IsFinite(a) THEN NaN
    ELSE IF m = 0
         THEN [n |-> IF a.n > 0 THEN 1 ELSE IF a.n < 0 THEN 0 - 1 ELSE 0, d |-> 0]
    ELSE [n |-> a.n, d |-> a.d * m]

\* sum of the integers f[lo..hi]
RECURSIVE SumRange(_, _, _)
SumRange(f, lo, hi) ==
    IF hi < lo THEN 0
    ELSE IF lo = hi THEN f[lo]
    ELSE SumRange(f, lo, (lo + hi) \div 2) + SumRange(f, (lo + hi) \div 2 + 1, hi)

\* np.sum over the reals f[1..n] (exact, so the order of the additions is
\* immaterial); the terms of one sum share their denominator
RSum(f, n) ==
    IF n = 0 THEN FromInt(0)
    ELSE IF \E i \in 1..n : ~IsFinite(f[i]) THEN NaN
    ELSE IF \A i \in 1..n : f[i].d = f[1].d
         THEN [n |-> SumRange([i \in 1..n |-> f[i].n], 1, n), d |-> f[1].d]
    ELSE LET l == SumRange([i \in 1..n |-> f[i].d], 1, n)
         IN  [n |-> SumRange([i \in 1..n |-> f[i].n * (l \div f[i].d)], 1, n), d |-> l]

\* --------------------------------------------------------------- arrays
\* A 2-D array is [shape |-> <<n, d>>, data |-> sequence of n rows of d].
Array2(rows, d) == [shape |-> <<Len(rows), d>>, data |-> rows]

\* float(arr.shape[0])
EnsembleSizeBessel(a) == a.shape[1] - 1

EnsembleSize(a) == a.shape[1]

\* np.mean(arr, axis=0): the column sums divided by the number of rows
MeanAxis0(a) ==
    [j \in 1..a.shape[2] |->
        RDivInt(RSum([i \in 1..a.shape[1] |-> FromInt(a.data[i][j])], a.shape[1]),
                a.shape[1])]

\* diff = arr - mean[None, :]
Diff(a, mean) ==
    [i \in 1..a.shape[1] |->
        SubSeq([j \in 1..a.shape[2] |-> RSub(FromInt(a.data[i][j]), mean[j])],
               1, a.shape[2])]

\* cov = diff[:, None, :] * diff[:, :, None]; cov = np.sum(cov, axis=0) / nmc
compute_mean_cov(a) ==
    LET n    == a.shape[1]
        d    == a.shape[2]
        nmcf == EnsembleSize(a)
        mean == SubSeq(MeanAxis0(a), 1, d)
        diff == SubSeq(Diff(a, mean), 1, n)
        cov  == [p \in 1..d |->
                    [q \in 1..d |->
                        RDivInt(RSum([i \in 1..n |-> RMul(diff[i][q], diff[i][p])], n),
                                nmcf)]]
    IN  [err |-> "none", mean |-> mean, cov |-> cov]

\* ------------------------------------------------ configuration and data
\* hoover.LogProb.load_model_from_yaml: the model identifier.
model_identifier == "modelA"

\* masking.get_powerspectrum_tools(): name, mode-coupling workspace (one
\* decoupling weight per band), mask weight, pixel count, beam.
PowerspectrumTools ==
    << [mask_name |-> "maskA", wsp |-> <<1>>,    mask |-> 2, npix |-> 1, beam |-> <<1>>],
       [mask_name |-> "maskB", wsp |-> <<1, 2>>, mask |-> 1, npix |-> 1, beam |-> <<2, 2>>] >>

\* masking.get_fitting_indices(): the fitting scheme names.
fitting_masks == << "fit1", "fit2" >>

\* lnP._components, in the order the model file lists them.
ComponentLists ==
    { << "dust" >>, << "cmb" >>, << "cmb", "dust" >>, << "dust", "cmb" >> }

ComponentNames == { "cmb", "dust" }

\* binning.get_n_bands()
get_n_bands(tool) == Len(tool.wsp)

\* wsp.get_bandpower_windows()
get_bandpower_windows(tool) == [b \in 1..Len(tool.wsp) |-> tool.wsp[b] + 10]

\* A defect of the amplitude record: a T_bar dataset one realization short,
\* a T_bar dataset whose pixelization differs from the masks', or a record
\* without cmb_N_T.
NoDefect == [kind |-> "none", fit |-> "", comp |-> ""]

Defects ==
    {NoDefect}
    \cup [kind : {"short", "shape"}, fit : {fitting_masks[i] : i \in 1..Len(fitting_masks)},
          comp : ComponentNames]
    \cup [kind : {"no_N_T"}, fit : {fitting_masks[i] : i \in 1..Len(fitting_masks)},
          comp : {"cmb"}]

FitIndex(fit) == CHOOSE i \in 1..Len(fitting_masks) : fitting_masks[i] = fit

\* ------------------------------------------------------------- variables
VARIABLES
    nmc, components, estimate_noise, defect,          \* run configuration
    pc, err, run, mi, fi, ci,                          \* position in main()
    cl_mc, ispec, N_T_1, N_T_2, noise_mc, cl_n, k, component,   \* locals
    store, rng,                                        \* HDF5 file, np.random
    ntReads, visited, rowWrites, ntReadIter, bufIter,  \* history
    noiseProv, noiseDraws, store1,
    arr, result, covpc                                 \* compute_mean_cov call

inputs == << nmc, components, estimate_noise, defect >>
ctl    == << pc, err, run, mi, fi, ci >>
locals == << cl_mc, ispec, N_T_1, N_T_2, noise_mc, cl_n, k, component >>
hist   == << ntReads, visited, rowWrites, ntReadIter, bufIter, noiseProv, noiseDraws, store1 >>
covv   == << arr, result, covpc >>
vars   == << inputs, ctl, locals, store, rng, hist, covv >>

\* ------------------------------------------------------------ HDF5 paths
\* Path(model_identifier) / fitting_name
hdf5_record_amp(fit) == model_identifier \o "/" \o fit

\* hdf5_record_amp / 'spectra' / mask_name
hdf5_record_spec(fit, mask_name) == hdf5_record_amp(fit) \o "/spectra/" \o mask_name

DsetPath(fit, mask_name, name) == hdf5_record_spec(fit, mask_name) \o "/" \o name

EmptyStore == [p \in {} |-> 0]

\* dset[...] = value, after require_dataset created the dataset if absent
Put(st, p, v) == [q \in (DOMAIN st) \cup {p} |-> IF q = p THEN v ELSE st[q]]

\* require_dataset raises TypeError when the dataset exists with another shape
ShapeConflict(st, p, shape) == p \in DOMAIN st /\ st[p].shape # shape

\* ------------------------------------------------------------ input data
\* rows of f["<amp>/<component>_T_bar"]
TBarRows(fit, comp) ==
    LET n == IF nmc > 0 THEN nmc ELSE 0
    IN  IF defect.kind = "short" /\ defect.fit = fit /\ defect.comp = comp /\ n > 0
        THEN n - 1 ELSE n

\* pixel count of the maps of f["<amp>/<component>_T_bar"]
TBarNpix(fit, comp) ==
    IF defect.kind = "shape" /\ defect.fit = fit /\ defect.comp = comp THEN 2 ELSE 1

\* f["<amp>/<component>_T_bar"][i, ...]
TBar(fit, comp, i) == i + 1 + (IF comp = "cmb" THEN 0 ELSE 5) + 10 * (FitIndex(fit) - 1)

\* contents of the dataset <amp>/cmb_N_T of a fitting scheme's record: a
\* per-pixel variance, a perfect square here
cmb_N_T(fit) == FitIndex(fit) * FitIndex(fit)

\* f[f"{hdf5_record_amp}"]['cmb_N_T'][...]: the record the variance is read from
ReadNTFirst(fit) == cmb_N_T(fitting_masks[1])

ReadNT(fit) == cmb_N_T(fit)

HasNT(fit) == ~(defect.kind = "no_N_T" /\ defect.fit = fit)

\* ------------------------------------------------------- pure operations
\* int(nmc / 2): true division, then truncation toward zero
IntHalf(n) == IF n >= 0 THEN n \div 2 ELSE 0 - ((0 - n) \div 2)

\* len(np.arange(nmc)[::2])
NumPairIter(n) == IF n <= 0 THEN 0 ELSE (n + 1) \div 2

\* np.arange(nmc)[::2][ispec]
ImcSingle(is) == is

Imc(is) == 2 * is

\* jmc = imc + 1
Jmc(imc) == imc + 1

\* np.zeros((n, d))
Zeros2(n, d) == [shape |-> <<n, d>>, data |-> [i \in 1..n |-> [j \in 1..d |-> 0]]]

\* np.zeros((n, 4, nb))
Zeros3(n, nb) ==
    [shape |-> <<n, N_SPEC, nb>>,
     data  |-> [i \in 1..n |-> [t \in 1..N_SPEC |-> [b \in 1..nb |-> 0]]]]

\* compute_nmt_spectra: the masked fields, their coupled pseudo-spectrum
\* (bilinear in the two fields, one value per spectral type) and its
\* decoupling into bandpowers.  pymaster is external; this is a surrogate
\* that keeps the dependence on both maps, the mask and the workspace.
compute_nmt_spectra(qu1, qu2, mask, wsp) ==
    LET f1 == mask * qu1
        f2 == mask * qu2
        cl_coupled == [t \in 1..N_SPEC |-> t * f1 * f2]
    IN  [t \in 1..N_SPEC |-> [b \in 1..Len(wsp) |-> wsp[b] * cl_coupled[t]]]

\* np.sqrt on a perfect square
ISqrt(n) == CHOOSE r \in 0..n : r * r = n

\* np.random: the global generator is a deterministic function of its
\* state; each draw advances the state.
Randn(g) == (g % 3) - 1

NextRng(g) == (5 * g + 3) % 16

\* get_realization(N_T) with the generator in state g
get_realization(N_T, g) == Randn(g) * ISqrt(N_T)

Seeds == 0..MaxSeed

\* ---------------------------------------------------------- initial state
Triples ==
    (1..Len(PowerspectrumTools)) \X (1..Len(fitting_masks)) \X ComponentNames

NoResult == [err |-> "none", mean |-> <<>>, cov |-> <<>>]

FreshLocals ==
    /\ cl_mc = <<>> /\ ispec = 0 /\ N_T_1 = <<>> /\ N_T_2 = <<>>
    /\ noise_mc = <<>> /\ cl_n = <<>> /\ k = 0 /\ component = <<>>

FreshHistory ==
    /\ ntReads = [t \in Triples |-> 0]
    /\ visited = <<>> /\ rowWrites = <<>>
    /\ ntReadIter = <<>> /\ bufIter = <<>>
    /\ noiseProv = EmptyStore /\ noiseDraws = 0
    /\ store1 = EmptyStore

Init ==
    /\ nmc \in (0 - MaxNeg)..MaxNmc
    /\ components \in ComponentLists
    /\ estimate_noise \in BOOLEAN
    /\ defect \in Defects
    /\ pc = "group" /\ err = "none" /\ run = 1
    /\ mi = 1 /\ fi = 1 /\ ci = 1
    /\ FreshLocals
    /\ store = EmptyStore
    /\ rng \in Seeds
    /\ FreshHistory
    /\ arr = Array2(<<>>, 1) /\ result = NoResult /\ covpc = "idle"

\* ---------------------------------------------------------------- main()
Tool == PowerspectrumTools[mi]

Fit == fitting_masks[fi]

Iter == << run, mi, fi >>

LastIter == fi = Len(fitting_masks) /\ mi = Len(PowerspectrumTools)

\* the exception leaves main(); the with-block closes the file
Fail(e) == pc' = "failed" /\ err' = e

\* next (mask, fitting scheme) of the two outer loops, or the end of main()
Advance(st) ==
    /\ IF fi < Len(fitting_masks)
          THEN pc' = "group" /\ fi' = fi + 1 /\ mi' = mi
          ELSE IF mi < Len(PowerspectrumTools)
               THEN pc' = "group" /\ fi' = 1 /\ mi' = mi + 1
               ELSE pc' = "done" /\ fi' = fi /\ mi' = mi
    /\ store1' = IF LastIter /\ run = 1 THEN st ELSE store1

\* the group of this (fitting scheme, mask), its attribute, the bandpower
\* window function and the beam
OpenGroup ==
    /\ pc = "group"
    /\ LET bpw  == get_bandpower_windows(Tool)
           pb   == DsetPath(Fit, Tool.mask_name, "bpw_window_function")
           pm   == DsetPath(Fit, Tool.mask_name, "beam")
           pa   == hdf5_record_spec(Fit, Tool.mask_name) \o "@config"
           vb   == [shape |-> << Len(bpw) >>, data |-> bpw]
           vm   == [shape |-> << Len(Tool.beam) >>, data |-> Tool.beam]
           va   == [shape |-> << >>, data |-> "masking.cfg"]
       IN  IF ShapeConflict(store, pb, vb.shape)
           THEN Fail("TypeError") /\ store' = Put(store, pa, va) /\ UNCHANGED ci
           ELSE IF ShapeConflict(store, pm, vm.shape)
           THEN Fail("TypeError") /\ store' = Put(Put(store, pa, va), pb, vb)
                /\ UNCHANGED ci
           ELSE /\ store' = Put(Put(Put(store, pa, va), pb, vb), pm, vm)
                /\ ci' = 1
                /\ pc' = IF Len(components) = 0 THEN "noise" ELSE "alloc"
                /\ UNCHANGED err
    /\ UNCHANGED << inputs, run, mi, fi, locals, rng, hist, covv >>

\* for component in lnP._components: cl_mc = np.zeros(...)
AllocAccumulator ==
    /\ pc = "alloc"
    /\ component' = << components[ci] >>
    /\ IF IntHalf(nmc) < 0
          THEN Fail("ValueError") /\ UNCHANGED << cl_mc, ispec, visited, rowWrites >>
          ELSE /\ cl_mc' = << Zeros3(IntHalf(nmc), get_n_bands(Tool)) >>
               /\ ispec' = 0
               /\ visited' = <<>>
               /\ rowWrites' = [r \in 1..IntHalf(nmc) |-> 0]
               /\ pc' = "pair"
               /\ UNCHANGED err
    /\ UNCHANGED << inputs, run, mi, fi, ci, N_T_1, N_T_2, noise_mc, cl_n, k,
                    store, rng, ntReads, ntReadIter, bufIter, noiseProv,
                    noiseDraws, store1, covv >>

\* what the body of the pair loop does to the file: nothing
StoreAfterPairStreaming(st, p, acc) == Put(st, p, acc)

StoreAfterPair(st, p, acc) == st

\* the first exception the body of the pair loop raises, in source order
PairError(is) ==
    LET c    == component[1]
        rows == TBarRows(Fit, c)
    IN  IF Imc(is) >= rows THEN "IndexError"
        ELSE IF Jmc(Imc(is)) >= rows THEN "IndexError"
        ELSE IF TBarNpix(Fit, c) # Tool.npix THEN "ValueError"
        ELSE IF is >= cl_mc[1].shape[1] THEN "IndexError"
        ELSE IF c = "cmb" /\ ~HasNT(Fit) THEN "KeyError"
        ELSE "none"

\* one pass of: for ispec, imc in enumerate(np.arange(nmc)[::2])
PairStep ==
    /\ pc = "pair"
    /\ ispec < NumPairIter(nmc)
    /\ LET c    == component[1]
           imc  == Imc(ispec)
           jmc  == Jmc(imc)
           cl   == compute_nmt_spectra(TBar(Fit, c, imc), TBar(Fit, c, jmc),
                                       Tool.mask, Tool.wsp)
           acc  == [cl_mc[1] EXCEPT !.data[ispec + 1] = cl]
       IN  IF PairError(ispec) # "none"
           THEN /\ Fail(PairError(ispec))
                /\ UNCHANGED << locals, store, ntReads, visited, rowWrites,
                                ntReadIter, bufIter >>
           ELSE /\ cl_mc' = << acc >>
                /\ ispec' = ispec + 1
                /\ visited' = Append(visited, << imc, jmc >>)
                /\ rowWrites' = [rowWrites EXCEPT ![ispec + 1] = @ + 1]
                /\ store' = StoreAfterPair(store, DsetPath(Fit, Tool.mask_name, c), acc)
                /\ IF c = "cmb"
                      THEN /\ N_T_1' = << ReadNT(Fit) >>
                           /\ N_T_2' = << ReadNT(Fit) >>
                           /\ noise_mc' = << NOISE_MC >>
                           /\ cl_n' = << Zeros2(NOISE_MC, get_n_bands(Tool)) >>
                           /\ ntReads' = [ntReads EXCEPT ![<< mi, fi, c >>] = @ + 2]
                           /\ ntReadIter' = << Iter >>
                           /\ bufIter' = << Iter >>
                      ELSE UNCHANGED << N_T_1, N_T_2, noise_mc, cl_n, ntReads,
                                        ntReadIter, bufIter >>
                /\ UNCHANGED << pc, err, k, component >>
    /\ UNCHANGED << inputs, run, mi, fi, ci, rng, noiseProv, noiseDraws, store1, covv >>

\* after the pair loop: spec.require_dataset(component, ...); cl_dset[...] = cl_mc
SaveComponent ==
    /\ pc = "pair"
    /\ ispec >= NumPairIter(nmc)
    /\ LET p == DsetPath(Fit, Tool.mask_name, component[1])
       IN  IF ShapeConflict(store, p, cl_mc[1].shape)
           THEN Fail("TypeError") /\ UNCHANGED << store, ci >>
           ELSE /\ store' = Put(store, p, cl_mc[1])
                /\ IF ci < Len(components)
                      THEN ci' = ci + 1 /\ pc' = "alloc"
                      ELSE ci' = ci /\ pc' = "noise"
                /\ UNCHANGED err
    /\ UNCHANGED << inputs, run, mi, fi, locals, rng, hist, covv >>

\* if estimate_noise: for k in range(noise_mc)
NoiseBegin ==
    /\ pc = "noise"
    /\ IF ~estimate_noise
          THEN Advance(store) /\ UNCHANGED << err, k, noiseDraws >>
          ELSE IF noise_mc = <<>>
          THEN Fail("UnboundLocalError") /\ UNCHANGED << mi, fi, k, noiseDraws, store1 >>
          ELSE /\ pc' = "noiseloop"
               /\ k' = 0
               /\ noiseDraws' = 0
               /\ UNCHANGED << err, mi, fi, store1 >>
    /\ UNCHANGED << inputs, run, ci, cl_mc, ispec, N_T_1, N_T_2, noise_mc, cl_n,
                    component, store, rng, ntReads, visited, rowWrites,
                    ntReadIter, bufIter, noiseProv, covv >>

\* n1, n2 = get_realization(...); cl_n[k] = compute_nmt_spectra(...)[3]
NoiseStep ==
    /\ pc = "noiseloop"
    /\ k < noise_mc[1]
    /\ LET n1 == get_realization(N_T_1[1], rng)
           n2 == get_realization(N_T_2[1], NextRng(rng))
           cl == compute_nmt_spectra(n1, n2, Tool.mask, Tool.wsp)
       IN  /\ cl_n' = << [cl_n[1] EXCEPT !.data[k + 1] = cl[N_SPEC]] >>
           /\ rng' = NextRng(NextRng(rng))
    /\ k' = k + 1
    /\ noiseDraws' = noiseDraws + 1
    /\ UNCHANGED << inputs, ctl, cl_mc, ispec, N_T_1, N_T_2, noise_mc, component,
                    store, ntReads, visited, rowWrites, ntReadIter, bufIter,
                    noiseProv, store1, covv >>

\* compute_mean_cov(cl_n) and the two <component>_cln_* datasets
NoiseSave ==
    /\ pc = "noiseloop"
    /\ k >= noise_mc[1]
    /\ LET r  == compute_mean_cov(cl_n[1])
           d  == cl_n[1].shape[2]
           pm == DsetPath(Fit, Tool.mask_name, component[1] \o "_cln_mean")
           pv == DsetPath(Fit, Tool.mask_name, component[1] \o "_cln_cov")
           vm == [shape |-> << d >>, data |-> r.mean]
           vv == [shape |-> << d, d >>, data |-> r.cov]
       IN  IF ShapeConflict(store, pm, vm.shape) \/ ShapeConflict(store, pv, vv.shape)
           THEN Fail("TypeError") /\ UNCHANGED << mi, fi, store, noiseProv, store1 >>
           ELSE /\ store' = Put(Put(store, pm, vm), pv, vv)
                /\ noiseProv' = Put(noiseProv, hdf5_record_spec(Fit, Tool.mask_name),
                                    [pairs |-> noiseDraws, nt1 |-> N_T_1[1],
                                     nt2 |-> N_T_2[1], ntIter |-> ntReadIter,
                                     bufIter |-> bufIter, iter |-> Iter,
                                     mask |-> Tool.mask, wsp |-> Tool.wsp,
                                     name |-> component[1]])
                /\ Advance(store')
                /\ UNCHANGED err
    /\ UNCHANGED << inputs, run, ci, locals, rng, ntReads, visited, rowWrites,
                    ntReadIter, bufIter, noiseDraws, covv >>

\* a second invocation of main() with the same configuration on the same
\* file: fresh locals, a freshly seeded generator
Rerun ==
    /\ pc = "done" /\ run = 1
    /\ run' = 2
    /\ pc' = "group" /\ mi' = 1 /\ fi' = 1 /\ ci' = 1
    /\ cl_mc' = <<>> /\ ispec' = 0 /\ N_T_1' = <<>> /\ N_T_2' = <<>>
    /\ noise_mc' = <<>> /\ cl_n' = <<>> /\ k' = 0 /\ component' = <<>>
    /\ rng' \in Seeds
    /\ ntReads' = [t \in Triples |-> 0]
    /\ visited' = <<>> /\ rowWrites' = <<>>
    /\ ntReadIter' = <<>> /\ bufIter' = <<>>
    /\ noiseDraws' = 0
    /\ UNCHANGED << inputs, err, store, noiseProv, store1, covv >>

Next ==
    \/ OpenGroup
    \/ AllocAccumulator
    \/ PairStep
    \/ SaveComponent
    \/ NoiseBegin
    \/ NoiseStep
    \/ NoiseSave
    \/ Rerun

Spec == Init /\ [][Next]_vars

\* ------------------------------------- compute_mean_cov on its own inputs
Vals == 0..MaxVal

InitCov ==
    /\ nmc = 0 /\ components = << "dust" >> /\ estimate_noise = FALSE
    /\ defect = NoDefect
    /\ pc = "idle" /\ err = "none" /\ run = 1
    /\ mi = 1 /\ fi = 1 /\ ci = 1
    /\ FreshLocals
    /\ store = EmptyStore
    /\ rng = 0
    /\ FreshHistory
    /\ \E n \in 0..MaxN, d \in 1..MaxDim :
          \E rows \in [1..n -> [1..d -> Vals]] : arr = Array2(rows, d)
    /\ result = NoResult /\ covpc = "call"

CallMeanCov ==
    /\ covpc = "call"
    /\ result' = compute_mean_cov(arr)
    /\ covpc' = "return"
    /\ UNCHANGED << inputs, ctl, locals, store, rng, hist, arr >>

NextCov == CallMeanCov

SpecCov == InitCov /\ [][NextCov]_vars

\* ================================================================ claims
Range(f) == { f[i] : i \in DOMAIN f }

EvenPositive(n) == n > 0 /\ n % 2 = 0

\* the pair loop of the current triple has run to its end
LoopDone == pc = "pair" /\ ispec >= NumPairIter(nmc)

ComponentPaths ==
    { DsetPath(fitting_masks[f], PowerspectrumTools[m].mask_name, c) :
        << m, f, c >> \in Triples }

\* the accumulator the claim describes for a triple
ExpectedRow(m, f, c, r) ==
    compute_nmt_spectra(TBar(fitting_masks[f], c, 2 * (r - 1)),
                        TBar(fitting_masks[f], c, 2 * (r - 1) + 1),
                        PowerspectrumTools[m].mask, PowerspectrumTools[m].wsp)

\* C1: for even nmc > 0 the pair loop of every triple visits the pairs
\* (2k, 2k+1), k = 0 .. nmc/2-1, in increasing k; at its end every index
\* 0..nmc-1 is in exactly one pair; pair k's estimate is row k of an
\* accumulator of nmc/2 rows and every row is assigned exactly once; the
\* dataset written for the triple is that accumulator.
C1_PairLoop ==
    EvenPositive(nmc) =>
      /\ pc = "pair" =>
            /\ cl_mc[1].shape = << nmc \div 2, N_SPEC, get_n_bands(Tool) >>
            /\ Len(cl_mc[1].data) = nmc \div 2
            /\ Len(visited) = ispec
            /\ \A q \in 1..Len(visited) : visited[q] = << 2 * (q - 1), 2 * (q - 1) + 1 >>
            /\ \A r \in 1..(nmc \div 2) :
                    /\ rowWrites[r] = IF r <= ispec THEN 1 ELSE 0
                    /\ r <= ispec =>
                          cl_mc[1].data[r] = ExpectedRow(mi, fi, component[1], r)
      /\ LoopDone =>
            /\ Len(visited) = nmc \div 2
            /\ \A i \in 0..(nmc - 1) :
                    Cardinality({ q \in 1..Len(visited) :
                                    visited[q][1] = i \/ visited[q][2] = i }) = 1
      /\ \A t \in Triples :
            LET p == DsetPath(fitting_masks[t[2]], PowerspectrumTools[t[1]].mask_name, t[3])
            IN  p \in DOMAIN store =>
                  /\ store[p].shape[1] = nmc \div 2
                  /\ \A r \in 1..(nmc \div 2) :
                        store[p].data[r] = ExpectedRow(t[1], t[2], t[3], r)

C1_Witness ==
    /\ nmc = 4 /\ components = << "dust" >> /\ LoopDone
    /\ visited = << << 0, 1 >>, << 2, 3 >> >>
    /\ rowWrites = << 1, 1 >>

\* C2: for odd or non-positive nmc the run ends in an error (the claim calls
\* it ConfigurationError; exception class names are not compared here),
\* never completes normally and writes no component spectrum dataset, so no
\* empty or truncated accumulator either.
C2_OddOrNonPositiveRejected ==
    (nmc <= 0 \/ nmc % 2 = 1) =>
      /\ pc # "done"
      /\ ComponentPaths \cap DOMAIN store = {}

\* C3: with noise estimation enabled and "cmb" in the component list, the
\* noise statistics of every (mask, fitting scheme) are written as
\* cmb_cln_mean and cmb_cln_cov, and no <c>_cln_mean or <c>_cln_cov is
\* written for a component c without a noise model.
C3_NoiseDatasetsNamedCmb ==
    (estimate_noise /\ "cmb" \in Range(components)) =>
      /\ \A m \in 1..Len(PowerspectrumTools), f \in 1..Len(fitting_masks) :
            LET mn == PowerspectrumTools[m].mask_name
                ft == fitting_masks[f]
            IN  /\ hdf5_record_spec(ft, mn) \in DOMAIN noiseProv =>
                      /\ DsetPath(ft, mn, "cmb_cln_mean") \in DOMAIN store
                      /\ DsetPath(ft, mn, "cmb_cln_cov") \in DOMAIN store
                /\ \A c \in ComponentNames \ {"cmb"} :
                      /\ DsetPath(ft, mn, c \o "_cln_mean") \notin DOMAIN store
                      /\ DsetPath(ft, mn, c \o "_cln_cov") \notin DOMAIN store

CurrentPath == DsetPath(Fit, Tool.mask_name, component[1])

\* C4: a triple's dataset is written only by the step that follows a fully
\* populated accumulator; the pair loop never touches the file, so a step of
\* it that fails leaves no dataset at the triple's path (first run) and
\* every dataset written before unchanged.
C4_CommitAfterFullyPopulated ==
    /\ []((run = 1 /\ pc = "pair") => CurrentPath \notin DOMAIN store)
    /\ [][ pc = "pair" =>
             /\ pc' \in {"pair", "failed"} => store' = store
             /\ (pc' = "failed" /\ run = 1) => CurrentPath \notin DOMAIN store'
             /\ store' # store =>
                   /\ Len(rowWrites) = IntHalf(nmc)
                   /\ \A r \in 1..Len(rowWrites) : rowWrites[r] = 1
                   /\ store' = Put(store, CurrentPath, cl_mc[1]) ]_vars

C4_Witness ==
    /\ pc = "failed" /\ err = "IndexError" /\ defect.kind = "short"
    /\ ispec = 1 /\ rowWrites = << 1, 0 >>
    /\ Fit = "fit2" /\ component = << "dust" >>
    /\ DsetPath("fit1", "maskA", "dust") \in DOMAIN store
    /\ CurrentPath \notin DOMAIN store

\* C5: after a second run with identical inputs on the same file, the file
\* holds the same paths with the same contents as after the first run,
\* the noise mean and covariance included.
C5_RerunIdempotent ==
    (run = 2 /\ pc = "done") => store = store1

\* C8: with noise estimation enabled, a valid nmc, sound input data and no
\* "cmb" in the component list, the run does not abort on unbound noise
\* variables: it completes normally, with every component dataset of every
\* (mask, fitting scheme) written and no *_cln_mean or *_cln_cov dataset.
C8_NoiseGuardedByLoadedMap ==
    (estimate_noise /\ "cmb" \notin Range(components)
        /\ EvenPositive(nmc) /\ defect = NoDefect) =>
      /\ pc # "failed"
      /\ DOMAIN noiseProv = {}
      /\ pc = "done" =>
            \A t \in Triples :
                t[3] \in Range(components) =>
                    DsetPath(fitting_masks[t[2]], PowerspectrumTools[t[1]].mask_name, t[3])
                        \in DOMAIN store

\* C9: per (mask, fitting scheme, component) the noise variance map is read
\* at most once, and only for "cmb".
C9_VarianceMapReadOnce ==
    \A t \in Triples :
        /\ ntReads[t] <= 1
        /\ ntReads[t] > 0 => t[3] = "cmb"

\* C10: with noise estimation enabled, "cmb" in the component list and even
\* nmc >= 2, the noise statistics written for (mask m, fitting scheme f)
\* come from exactly 30 noise pairs drawn from the variance map of f's own
\* record, read in that (m, f) iteration, with m's mask and workspace and a
\* buffer allocated in that iteration.
C10_NoiseFromOwnIteration ==
    (estimate_noise /\ "cmb" \in Range(components) /\ EvenPositive(nmc)) =>
      /\ pc = "noiseloop" =>
            /\ noise_mc = << NOISE_MC >>
            /\ ntReadIter = << Iter >> /\ bufIter = << Iter >>
            /\ N_T_1 = << cmb_N_T(Fit) >> /\ N_T_2 = << cmb_N_T(Fit) >>
            /\ \A r \in (k + 1)..NOISE_MC :
                    cl_n[1].data[r] = [b \in 1..get_n_bands(Tool) |-> 0]
      /\ \A m \in 1..Len(PowerspectrumTools), f \in 1..Len(fitting_masks) :
            LET g == hdf5_record_spec(fitting_masks[f], PowerspectrumTools[m].mask_name)
            IN  g \in DOMAIN noiseProv =>
                  /\ noiseProv[g].pairs = 30
                  /\ noiseProv[g].nt1 = cmb_N_T(fitting_masks[f])
                  /\ noiseProv[g].nt2 = cmb_N_T(fitting_masks[f])
                  /\ noiseProv[g].iter[2] = m /\ noiseProv[g].iter[3] = f
                  /\ noiseProv[g].ntIter = << noiseProv[g].iter >>
                  /\ noiseProv[g].bufIter = << noiseProv[g].iter >>
                  /\ noiseProv[g].mask = PowerspectrumTools[m].mask
                  /\ noiseProv[g].wsp = PowerspectrumTools[m].wsp

C10_Witness ==
    /\ estimate_noise /\ "cmb" \in Range(components) /\ nmc = 2
    /\ pc = "done" /\ run = 1
    /\ Cardinality(DOMAIN noiseProv) = Len(PowerspectrumTools) * Len(fitting_masks)
    /\ noiseProv[hdf5_record_spec("fit2", "maskB")].nt1 = 4

\* ------------------------------------------------ compute_mean_cov claims
RECURSIVE ISum(_, _)
ISum(f, i) == IF i = 0 THEN 0 ELSE ISum(f, i - 1) + f[i]

ColSum(a, j) == ISum([i \in 1..a.shape[1] |-> a.data[i][j]], a.shape[1])

\* N^2 times the sum over the ensemble of the products of deviations
DevSum(a, p, q) ==
    LET n == a.shape[1]
    IN  ISum([i \in 1..n |-> (n * a.data[i][p] - ColSum(a, p))
                              * (n * a.data[i][q] - ColSum(a, q))], n)

\* C6: for N >= 1 vectors of dimension d, mean = the arithmetic average and
\* covariance[a,b] = (sum_k (x_k[a]-mean[a]) (x_k[b]-mean[b])) / N (divisor
\* N, not N-1); for N identical vectors the covariance is zero and the mean
\* is that vector.
C6_BiasedMeanCov ==
    (covpc = "return" /\ arr.shape[1] >= 1) =>
      LET n == arr.shape[1]
          d == arr.shape[2]
      IN  /\ result.err = "none"
          /\ \A p \in 1..d :
                /\ IsFinite(result.mean[p])
                /\ result.mean[p].n * n = ColSum(arr, p) * result.mean[p].d
          /\ \A p \in 1..d, q \in 1..d :
                /\ IsFinite(result.cov[p][q])
                /\ result.cov[p][q].n * (n * n * n)
                     = DevSum(arr, p, q) * result.cov[p][q].d
          /\ (\A i \in 1..n : arr.data[i] = arr.data[1]) =>
                /\ \A p \in 1..d : result.mean[p].n = arr.data[1][p] * result.mean[p].d
                /\ \A p \in 1..d, q \in 1..d : result.cov[p][q].n = 0

C6_Witness ==
    /\ covpc = "return"
    /\ arr = Array2(<< << 0, 2 >>, << 2, 0 >> >>, 2)
    /\ result.mean = << [n |-> 2, d |-> 2], [n |-> 2, d |-> 2] >>
    /\ result.cov = << << [n |-> 8, d |-> 8], [n |-> 0 - 8, d |-> 8] >>,
                       << [n |-> 0 - 8, d |-> 8], [n |-> 8, d |-> 8] >> >>

\* C7: called with an empty ensemble (N = 0, any d) the estimator fails
\* with an error (the claim calls it EmptyEnsembleError) and returns no mean
\* or covariance.
C7_EmptyEnsembleRejected ==
    (covpc = "return" /\ arr.shape[1] = 0) =>
      /\ result.err # "none"
      /\ result.mean = <<>> /\ result.cov = <<>>

====
